---- MODULE Spec2Model ----
(***************************************************************************)
(* Model of deepcount/ibloader.py: the futures-contract calendar           *)
(* (FuturesBasket, MetalsBasket), the bar writer (SnapshotWriter) and the  *)
(* request-sequencing state machine (SnapshotDriver).                      *)
(*                                                                         *)
(* Three specifications share the module:                                  *)
(*   SpecExp  get_expiration_date applied to every (year, month)           *)
(*   SpecGen  generate_requests, one loop iteration per step               *)
(*   Spec     the driver under arbitrary sequences of session callbacks    *)
(*                                                                         *)
(* Python values: None is the empty sequence and an object reference is a  *)
(* one-element sequence; a datetime is <<year, month, day, second of day>>;*)
(* lists are sequences, so Python index i is TLA+ index i + 1.             *)
(***************************************************************************)
EXTENDS Integers, Sequences, FiniteSets, TLC

VARIABLES
    \* SpecExp: one call of get_expiration_date
    exp_pc, exp_basket, exp_year, exp_month, exp_days, exp_result,
    \* SpecGen: one run of generate_requests
    gen_pc, basket, today, base_idx, expiration_dates, expiration_date,
    roll_date, yielded,
    \* Spec: the driver, its writer, the files and the session
    state, requests, current_writer, files, open_files, fetched,
    disconnects, saved, raised, event, completed, initial_requests,
    last_log,
    \* SpecWr: one writer driven directly; what it was given
    received, finalize_calls,
    \* SpecErr: one call of is_fatal_error
    err_pc, err_code, err_strict, err_fatal

expVars == <<exp_pc, exp_basket, exp_year, exp_month, exp_days, exp_result>>
genVars == <<gen_pc, basket, today, base_idx, expiration_dates,
             expiration_date, roll_date, yielded>>
drvVars == <<state, requests, current_writer, files, open_files, fetched,
             disconnects, saved, raised, event, completed,
             initial_requests, last_log>>
wrVars == <<received, finalize_calls>>
errVars == <<err_pc, err_code, err_strict, err_fatal>>
vars == <<expVars, genVars, drvVars, wrVars, errVars>>

None == <<>>
Some(x) == <<x>>

\* ---- bounds -------------------------------------------------------------
LastExpYear == 2027      \* SpecExp covers the years 2000..LastExpYear
LastRefYear == 2025      \* SpecGen draws "today" from 2024..LastRefYear
MaxBars == 3             \* bars delivered in one run of the driver
MaxDisconnects == 2      \* disconnect calls recorded in one run
MaxFinalize == 2         \* finalize calls made on the writer of SpecWr

ExpYears == 2000..LastExpYear
RefYears == 2024..LastRefYear
TimesOfDay == {0, 34200}
Baskets == {"FuturesBasket", "MetalsBasket"}

\* ---- datetime (standard library) -----------------------------------------
IsLeap(y) == (y % 4 = 0) /\ ((y % 100 # 0) \/ (y % 400 = 0))

DaysInMonth(y, m) ==
    IF m = 2 THEN (IF IsLeap(y) THEN 29 ELSE 28)
    ELSE IF m \in {4, 6, 9, 11} THEN 30 ELSE 31

RECURSIVE DaysBeforeMonth(_, _)
DaysBeforeMonth(y, m) ==
    IF m = 1 THEN 0 ELSE DaysBeforeMonth(y, m - 1) + DaysInMonth(y, m - 1)

DaysBeforeYear(y) ==
    365 * (y - 1) + ((y - 1) \div 4) - ((y - 1) \div 100) + ((y - 1) \div 400)

\* datetime.toordinal(): 0001-01-01 is day 1
toordinal(y, m, d) == DaysBeforeYear(y) + DaysBeforeMonth(y, m) + d

\* datetime.weekday(): Monday is 0, Sunday is 6
weekday(y, m, d) == (toordinal(y, m, d) + 6) % 7

\* datetime.datetime(year=, month=, day=): midnight of that day
datetime(y, m, d) == <<y, m, d, 0>>

\* dt - datetime.timedelta(days=n)
RECURSIVE minus_days(_, _)
minus_days(dt, n) ==
    IF n = 0 THEN dt
    ELSE IF dt[3] > 1 THEN minus_days(<<dt[1], dt[2], dt[3] - 1, dt[4]>>, n - 1)
    ELSE IF dt[2] > 1
         THEN minus_days(<<dt[1], dt[2] - 1, DaysInMonth(dt[1], dt[2] - 1),
                            dt[4]>>, n - 1)
    ELSE minus_days(<<dt[1] - 1, 12, 31, dt[4]>>, n - 1)

\* a < b on datetimes
dt_lt(a, b) ==
    \/ a[1] < b[1]
    \/ a[1] = b[1] /\ a[2] < b[2]
    \/ a[1] = b[1] /\ a[2] = b[2] /\ a[3] < b[3]
    \/ a[1] = b[1] /\ a[2] = b[2] /\ a[3] = b[3] /\ a[4] < b[4]

\* a >= b on datetimes
dt_ge(a, b) == ~dt_lt(a, b)

\* mutant of dt_min: the larger of the two
dt_min_max(a, b) == IF dt_lt(b, a) THEN a ELSE b

\* min(a, b): the first argument unless the second is smaller
dt_min(a, b) == IF dt_lt(b, a) THEN b ELSE a

\* range(a, b): a, a+1, ..., b-1
range_up(a, b) == [i \in 1..(IF b > a THEN b - a ELSE 0) |-> a + i - 1]

\* range(a, b, -1): a, a-1, ..., b+1
range_down(a, b) == [i \in 1..(IF a > b THEN a - b ELSE 0) |-> a - i + 1]

\* ---- FuturesBasket ------------------------------------------------------
EXPIRATION_LABELS ==
    <<"F", "G", "H", "J", "K", "M", "N", "Q", "U", "V", "X", "Z">>

DecimalDigit == <<"0", "1", "2", "3", "4", "5", "6", "7", "8", "9">>

futures_contract(ticker, exch) ==
    [secType |-> "FUT", exchange |-> exch, currency |-> "USD",
     localSymbol |-> ticker]

\* str(year)[-1:] is the last decimal digit of the year
local_symbol(base, exp_date) ==
    base \o EXPIRATION_LABELS[exp_date[2]] \o DecimalDigit[(exp_date[1] % 10) + 1]

symbols(b) ==
    IF b = "MetalsBasket" THEN <<"GC", "HG", "SI">> ELSE <<"ES", "NQ", "RTY">>

exchange(b) == IF b = "MetalsBasket" THEN "NYMEX" ELSE "GLOBEX"

\* mutant of roll_offset: MetalsBasket does not override the property
roll_offset_inherited(b) == 8

roll_offset(b) == IF b = "MetalsBasket" THEN 7 ELSE 8

\* the Fridays among days 1..21
FuturesBasket_fridays(year, month) ==
    SelectSeq(range_up(1, 22), LAMBDA d : weekday(year, month, d) = 4)

\* mutant of FuturesBasket_get_expiration_date: fridays[1], the 2nd Friday
FuturesBasket_get_expiration_date_second(year, month) ==
    LET fridays == FuturesBasket_fridays(year, month)
    IN  IF Len(fridays) >= 2 THEN Some(datetime(year, month, fridays[2]))
        ELSE None

\* None when fridays[2] raises IndexError
FuturesBasket_get_expiration_date(year, month) ==
    LET fridays == FuturesBasket_fridays(year, month)
    IN  IF Len(fridays) >= 3 THEN Some(datetime(year, month, fridays[3]))
        ELSE None

\* the days last_day, ..., 22 whose weekday is in 1..5
MetalsBasket_bizdays(year, month) ==
    SelectSeq(range_down(DaysInMonth(year, month), 21),
              LAMBDA d : 1 <= weekday(year, month, d)
                         /\ weekday(year, month, d) <= 5)

\* None when bizdays[-3] raises IndexError
MetalsBasket_get_expiration_date(year, month) ==
    LET bizdays == MetalsBasket_bizdays(year, month)
    IN  IF Len(bizdays) >= 3
        THEN Some(datetime(year, month, bizdays[Len(bizdays) - 2])) ELSE None

get_expiration_date(b, year, month) ==
    IF b = "MetalsBasket" THEN MetalsBasket_get_expiration_date(year, month)
    ELSE FuturesBasket_get_expiration_date(year, month)

\* `symbol is "GC"` compares the two interned literals of this module, so
\* it holds exactly for the symbol "GC"; None when NotImplementedError
MetalsBasket_get_expiration_months(symbol) ==
    IF symbol = "GC" THEN Some(<<2, 4, 6, 8, 10, 12>>)
    ELSE IF symbol \in {"HG", "SI"} THEN Some(<<3, 5, 7, 9, 12>>)
    ELSE None

get_expiration_months(b, symbol) ==
    IF b = "MetalsBasket" THEN MetalsBasket_get_expiration_months(symbol)
    ELSE Some(<<3, 6, 9, 12>>)

\* zip(a, b) stops at the shorter list
zip(a, b) ==
    [i \in 1..(IF Len(a) < Len(b) THEN Len(a) ELSE Len(b)) |-> <<a[i], b[i]>>]

get_expiration_dates(b, symbol, year) ==
    LET months0 == get_expiration_months(b, symbol)[1]
        expiration_months == months0 \o <<months0[1]>>
        expiration_years == <<year, year, year, year, year + 1>>
        pairs == zip(expiration_years, expiration_months)
    IN  [i \in 1..Len(pairs) |->
            get_expiration_date(b, pairs[i][1], pairs[i][2])[1]]

Request(contract, endtime) ==
    [contract |-> contract, endtime |-> endtime, duration |-> "3 M",
     barsize |-> "5 mins", after_hours |-> FALSE]

\* the expiration dates that are >= today, in list order
unexpired(dates, now) == SelectSeq(dates, LAMBDA e : dt_ge(e, now))

\* one iteration of the loop of generate_requests
generate_request(b, base, now) ==
    LET dates == get_expiration_dates(b, base, now[1])
        exp == Head(unexpired(dates, now))
        roll == minus_days(exp, roll_offset(b))
        ticker == local_symbol(base, exp)
        contract == futures_contract(ticker, exchange(b))
        end_date == dt_min(roll, now)
    IN  [expiration_dates |-> dates, expiration_date |-> exp,
         roll_date |-> roll, request |-> Request(contract, end_date)]

\* list(basket.generate_requests()) for the first n symbols
RECURSIVE generate_requests(_, _, _)
generate_requests(b, now, n) ==
    IF n = 0 THEN <<>>
    ELSE Append(generate_requests(b, now, n - 1),
                generate_request(b, symbols(b)[n], now).request)

\* ---- idle parts: a specification leaves the other parts untouched --------
ExpIdle ==
    /\ exp_pc = "idle" /\ exp_basket = "FuturesBasket" /\ exp_year = 2000
    /\ exp_month = 1 /\ exp_days = <<>> /\ exp_result = None

GenIdle ==
    /\ gen_pc = "idle" /\ basket = "FuturesBasket" /\ today = <<2024, 3, 1, 0>>
    /\ base_idx = 0 /\ expiration_dates = <<>> /\ expiration_date = None
    /\ roll_date = None /\ yielded = <<>>

DrvIdle ==
    /\ state = "idle" /\ requests = <<>> /\ current_writer = None
    /\ files = <<>> /\ open_files = {} /\ fetched = <<>>
    /\ disconnects = <<>> /\ saved = 0 /\ raised = "none"
    /\ event = [name |-> "none", code |-> 0] /\ completed = 0
    /\ initial_requests = <<>> /\ last_log = None

WrIdle == received = <<>> /\ finalize_calls = 0

ErrIdle ==
    /\ err_pc = "idle" /\ err_code = 0 /\ err_strict = FALSE
    /\ err_fatal = FALSE

\* ---- SpecExp: get_expiration_date on every month ------------------------
InitExp ==
    /\ exp_pc = "call"
    /\ exp_basket \in Baskets
    /\ exp_year \in ExpYears
    /\ exp_month \in 1..12
    /\ exp_days = <<>>
    /\ exp_result = None
    /\ GenIdle /\ DrvIdle /\ WrIdle /\ ErrIdle

FuturesGetExpirationDate ==
    /\ exp_pc = "call"
    /\ exp_basket = "FuturesBasket"
    /\ exp_days' = FuturesBasket_fridays(exp_year, exp_month)
    /\ exp_result' = FuturesBasket_get_expiration_date(exp_year, exp_month)
    /\ exp_pc' = IF exp_result' = None THEN "IndexError" ELSE "returned"
    /\ UNCHANGED <<exp_basket, exp_year, exp_month, genVars, drvVars, wrVars, errVars>>

MetalsGetExpirationDate ==
    /\ exp_pc = "call"
    /\ exp_basket = "MetalsBasket"
    /\ exp_days' = MetalsBasket_bizdays(exp_year, exp_month)
    /\ exp_result' = MetalsBasket_get_expiration_date(exp_year, exp_month)
    /\ exp_pc' = IF exp_result' = None THEN "IndexError" ELSE "returned"
    /\ UNCHANGED <<exp_basket, exp_year, exp_month, genVars, drvVars, wrVars, errVars>>

NextExp == FuturesGetExpirationDate \/ MetalsGetExpirationDate

SpecExp == InitExp /\ [][NextExp]_vars

\* ---- SpecGen: generate_requests, one symbol per step --------------------
RefDates ==
    {<<y, m, d, s>> : y \in RefYears, m \in 1..12, d \in 1..31,
                      s \in TimesOfDay} \ 
    {<<y, m, d, s>> \in RefYears \X (1..12) \X (1..31) \X TimesOfDay :
        d > DaysInMonth(y, m)}

InitGen ==
    /\ gen_pc = "loop"
    /\ basket \in Baskets
    /\ today \in RefDates
    /\ base_idx = 0
    /\ expiration_dates = <<>>
    /\ expiration_date = None
    /\ roll_date = None
    /\ yielded = <<>>
    /\ ExpIdle /\ DrvIdle /\ WrIdle /\ ErrIdle

\* the body of the for loop, up to and including the yield
GenerateNext ==
    /\ gen_pc = "loop"
    /\ base_idx < Len(symbols(basket))
    /\ LET base == symbols(basket)[base_idx + 1]
       IN  IF get_expiration_months(basket, base) = None
           THEN /\ gen_pc' = "NotImplementedError"
                /\ UNCHANGED <<base_idx, expiration_dates, expiration_date,
                               roll_date, yielded>>
           ELSE IF unexpired(get_expiration_dates(basket, base, today[1]),
                             today) = <<>>
           THEN /\ gen_pc' = "RuntimeError"
                /\ expiration_dates' =
                       get_expiration_dates(basket, base, today[1])
                /\ UNCHANGED <<base_idx, expiration_date, roll_date, yielded>>
           ELSE LET r == generate_request(basket, base, today)
                IN  /\ expiration_dates' = r.expiration_dates
                    /\ expiration_date' = Some(r.expiration_date)
                    /\ roll_date' = Some(r.roll_date)
                    /\ yielded' = Append(yielded, r.request)
                    /\ base_idx' = base_idx + 1
                    /\ gen_pc' = "loop"
    /\ UNCHANGED <<basket, today, expVars, drvVars, wrVars, errVars>>

\* the loop is exhausted and list() returns
GenerateStop ==
    /\ gen_pc = "loop"
    /\ base_idx = Len(symbols(basket))
    /\ gen_pc' = "done"
    /\ UNCHANGED <<basket, today, base_idx, expiration_dates,
                   expiration_date, roll_date, yielded, expVars, drvVars,
                   wrVars, errVars>>

NextGen == GenerateNext \/ GenerateStop

SpecGen == InitGen /\ [][NextGen]_vars

\* ---- strings ------------------------------------------------------------
Pad2(n) == DecimalDigit[(n \div 10) + 1] \o DecimalDigit[(n % 10) + 1]
Pad4(n) == Pad2(n \div 100) \o Pad2(n % 100)

\* dt.strftime("%Y%m%d %H:%M:%S")
strftime(dt) ==
    Pad4(dt[1]) \o Pad2(dt[2]) \o Pad2(dt[3]) \o " " \o Pad2(dt[4] \div 3600)
        \o ":" \o Pad2((dt[4] % 3600) \div 60) \o ":" \o Pad2(dt[4] % 60)

\* str(d) of a date: YYYY-MM-DD
date_str(d) == Pad4(d[1]) \o "-" \o Pad2(d[2]) \o "-" \o Pad2(d[3])

\* the timestamps of the bars the session delivers
BarTimes == {<<2024, 3, 1, 34200>>, <<2024, 3, 1, 34500>>, <<2024, 3, 4, 34200>>}

\* datetime.strptime(s, "%Y%m%d %H:%M:%S"): the inverse of strftime
strptime(s) == CHOOSE t \in BarTimes : strftime(t) = s

\* dt.date()
date(dt) == <<dt[1], dt[2], dt[3]>>

\* BarData as the session delivers it; the prices differ from bar to bar
BarData(t) ==
    [date |-> strftime(t), open |-> t[3], high |-> t[3] + 1, low |-> t[3] - 1,
     close |-> t[3], volume |-> (t[4] \div 100) % 10]

Bars == {BarData(t) : t \in BarTimes}

\* ---- SnapshotWriter -----------------------------------------------------
\* ",".join(BAR_COLUMNS) + "\n"
HeaderLine == "date,open,high,low,close,volume"

\* ",".join(str(getattr(bar, f)) for f in BAR_COLUMNS) + "\n"
BarLine(bar) ==
    bar.date \o "," \o DecimalDigit[bar.open + 1] \o ","
        \o DecimalDigit[bar.high + 1] \o "," \o DecimalDigit[bar.low + 1]
        \o "," \o DecimalDigit[bar.close + 1] \o ","
        \o DecimalDigit[bar.volume + 1]

SnapshotWriter(ticker) ==
    [ticker |-> ticker, base_dir |-> "snapshots", cur_date |-> None,
     cur_file |-> None]

\* A world is the writer with the file system it acts on:
\*   writer      the SnapshotWriter object
\*   files       path -> lines of the file
\*   open_files  paths with a file object that has not been closed
World(w, fs, of) == [writer |-> w, files |-> fs, open_files |-> of]

\* mutant of filepath: the file name is built from the ticker alone
filepath_nodate(w, d) == w.base_dir \o "/" \o w.ticker \o ".csv"

\* os.path.join(base_dir, "{date}_{ticker}.csv")
filepath(w, d) == w.base_dir \o "/" \o date_str(d) \o "_" \o w.ticker \o ".csv"

\* open(path, "w") creates or truncates the file
open_w(fs, path) == [q \in (DOMAIN fs) \cup {path} |->
                        IF q = path THEN <<>> ELSE fs[q]]

write(fs, path, line) == [fs EXCEPT ![path] = Append(@, line)]

\* the world a call leaves behind and the exception it raised ("none" when
\* it returned)
Outcome(w, fs, of, exc) ==
    [writer |-> w, files |-> fs, open_files |-> of, raised |-> exc]

\* io_ok is FALSE when os.makedirs or open raises OSError; that can only
\* happen when a new partition is opened, after the previous file was closed
\* and cur_date was set.  A later bar of that date then writes to cur_file,
\* which is still None (AttributeError) or the closed file (ValueError).
save_bar(w, fs, of, bar, io_ok) ==
    LET d == date(strptime(bar.date))
    IN  IF w.cur_date # Some(d)
        THEN LET of1 == IF w.cur_file # None THEN of \ {w.cur_file[1]} ELSE of
                 w1 == [w EXCEPT !.cur_date = Some(d)]
                 path == filepath(w, d)
                 fs1 == write(open_w(fs, path), path, HeaderLine)
             IN  IF ~io_ok THEN Outcome(w1, fs, of1, "OSError")
                 ELSE Outcome([w1 EXCEPT !.cur_file = Some(path)],
                              write(fs1, path, BarLine(bar)), of1 \cup {path},
                              "none")
        ELSE IF w.cur_file = None THEN Outcome(w, fs, of, "AttributeError")
        ELSE IF w.cur_file[1] \notin of THEN Outcome(w, fs, of, "ValueError")
        ELSE Outcome(w, write(fs, w.cur_file[1], BarLine(bar)), of, "none")

\* mutant of finalize: the file is closed but cur_file is not reset
finalize_keeps_handle(w, fs, of) ==
    IF w.cur_file # None
    THEN World([w EXCEPT !.cur_date = None], fs, of \ {w.cur_file[1]})
    ELSE World([w EXCEPT !.cur_date = None], fs, of)

finalize(w, fs, of) ==
    IF w.cur_file # None
    THEN World([w EXCEPT !.cur_date = None, !.cur_file = None], fs,
               of \ {w.cur_file[1]})
    ELSE World([w EXCEPT !.cur_date = None], fs, of)

\* ---- SnapshotDriver -----------------------------------------------------
REQ_HISTORICAL == 1

states == <<"initial", "req_historical", "finalize">>
AllStates == {states[i] : i \in 1..Len(states)}

\* sources of the transitions of create_machine ("*" is every state)
error_source == AllStates
stop_source == AllStates
\* mutant of nextValidId_source: the transition is added with source "*"
nextValidId_source_any == AllStates
nextValidId_source == {"initial"}
\* mutant of historicalData_source: the transition is added with source "*"
historicalData_source_any == AllStates
historicalData_source == {"req_historical"}
\* mutant of historicalDataEnd_source: the transitions are added with "*"
historicalDataEnd_source_any == AllStates
historicalDataEnd_source == {"req_historical"}

\* the codes the session reports to the driver: a fatal one, the first code
\* of the warning band and the delayed-data code
ErrorCodes == {502, 2000, 10167}

\* mutant of is_fatal_error: the warning band starts after 2000
is_fatal_error_exclusive(error_code) ==
    IF error_code > 2000 /\ error_code < 10000 THEN FALSE
    ELSE IF error_code = 10167 THEN FALSE
    ELSE TRUE

is_fatal_error(error_code) ==
    IF error_code >= 2000 /\ error_code < 10000 THEN FALSE
    ELSE IF error_code = 10167 THEN FALSE
    ELSE TRUE

\* mutant of is_request_pending: the comparison is with 1
is_request_pending_more == Len(requests) > 1

is_request_pending == Len(requests) > 0

\* mutant of pop0: requests.pop() takes the last request
pop_last(list) ==
    [item |-> list[Len(list)], rest |-> SubSeq(list, 1, Len(list) - 1)]

\* requests.pop(0): the removed item and the remaining list
pop0(list) == [item |-> Head(list), rest |-> Tail(list)]

\* the arguments of app.reqHistoricalData
reqHistoricalData(request) ==
    [reqId |-> REQ_HISTORICAL, contract |-> request.contract,
     endDateTime |-> strftime(request.endtime),
     durationStr |-> request.duration, barSizeSetting |-> request.barsize,
     whatToShow |-> "TRADES",
     useRTH |-> IF request.after_hours THEN 0 ELSE 1, formatDate |-> 1,
     keepUpToDate |-> FALSE, chartOptions |-> <<>>]

\* the fetches issued and not yet completed by the session
Outstanding == Len(fetched) - completed

\* logger.error(...): the record the logger emitted last
log_error(error_code) == last_log' = Some(error_code)

\* app.disconnect(), called while the files in of are open
disconnect(of) == disconnects' = Append(disconnects, of)

\* mutant of send_req_historical: the previous writer is not finalized
send_req_historical_no_finalize ==
    IF requests = <<>>
    THEN /\ raised' = "IndexError"
         /\ UNCHANGED <<requests, current_writer, files, open_files, fetched>>
    ELSE LET popped == pop0(requests)
             request == popped.item
             local_sym == request.contract.localSymbol
         IN  /\ requests' = popped.rest
             /\ UNCHANGED <<files, open_files>>
             /\ current_writer' = Some(SnapshotWriter(local_sym))
             /\ fetched' = Append(fetched, reqHistoricalData(request))
             /\ raised' = "none"

send_req_historical ==
    IF requests = <<>>
    THEN /\ raised' = "IndexError"
         /\ UNCHANGED <<requests, current_writer, files, open_files, fetched>>
    ELSE LET popped == pop0(requests)
             request == popped.item
             local_sym == request.contract.localSymbol
             closed == IF current_writer # None
                       THEN finalize(current_writer[1], files, open_files)
                       ELSE World(None, files, open_files)
         IN  /\ requests' = popped.rest
             /\ files' = closed.files
             /\ open_files' = closed.open_files
             /\ current_writer' = Some(SnapshotWriter(local_sym))
             /\ fetched' = Append(fetched, reqHistoricalData(request))
             /\ raised' = "none"

save_bar_data(bar, io_ok) ==
    IF current_writer = None
    THEN /\ raised' = "AttributeError"
         /\ UNCHANGED <<current_writer, files, open_files>>
    ELSE LET w == save_bar(current_writer[1], files, open_files, bar, io_ok)
         IN  /\ current_writer' = Some(w.writer)
             /\ files' = w.files
             /\ open_files' = w.open_files
             /\ raised' = w.raised

cleanup ==
    IF current_writer # None
    THEN LET w == finalize(current_writer[1], files, open_files)
         IN  /\ current_writer' = Some(w.writer)
             /\ files' = w.files
             /\ open_files' = w.open_files
    ELSE UNCHANGED <<current_writer, files, open_files>>

\* the trigger has no transition from the current state
MachineError ==
    /\ raised' = "MachineError"
    /\ UNCHANGED <<state, requests, current_writer, files, open_files,
                   fetched, disconnects>>

\* SnapshotDriver(app, requests) for the requests of a basket
InitDrv ==
    /\ \E b \in Baskets : \E n \in 0..Len(symbols(b)) :
          requests = generate_requests(b, <<2024, 3, 1, 34200>>, n)
    /\ initial_requests = requests
    /\ state = "initial"
    /\ current_writer = None
    /\ files = <<>>
    /\ open_files = {}
    /\ fetched = <<>>
    /\ disconnects = <<>>
    /\ saved = 0
    /\ raised = "none"
    /\ event = [name |-> "none", code |-> 0]
    /\ completed = 0
    /\ last_log = None
    /\ ExpIdle /\ GenIdle /\ WrIdle /\ ErrIdle

nextValidId ==
    /\ event' = [name |-> "nextValidId", code |-> 0]
    /\ IF state \in nextValidId_source
       THEN /\ state' = "req_historical"
            /\ send_req_historical
            /\ UNCHANGED disconnects
       ELSE MachineError
    /\ UNCHANGED <<saved, completed, initial_requests, last_log, expVars,
                   genVars, wrVars, errVars>>

historicalData ==
    /\ saved < MaxBars
    /\ \E bar \in Bars, io_ok \in BOOLEAN :
          IF state \in historicalData_source
          THEN /\ state' = state
               /\ save_bar_data(bar, io_ok)
               /\ UNCHANGED <<requests, fetched, disconnects>>
          ELSE MachineError
    /\ saved' = saved + 1
    /\ event' = [name |-> "historicalData", code |-> 0]
    /\ UNCHANGED <<completed, initial_requests, last_log, expVars, genVars,
                   wrVars, errVars>>

historicalDataEnd ==
    /\ event' = [name |-> "historicalDataEnd", code |-> 0]
    /\ completed' = IF Outstanding > 0 THEN completed + 1 ELSE completed
    /\ IF state \in historicalDataEnd_source
       THEN IF is_request_pending
            THEN /\ state' = state
                 /\ send_req_historical
                 /\ UNCHANGED disconnects
            ELSE /\ state' = "finalize"
                 /\ cleanup
                 /\ disconnect(open_files')
                 /\ raised' = "none"
                 /\ UNCHANGED <<requests, fetched>>
       ELSE MachineError
    /\ UNCHANGED <<saved, initial_requests, last_log, expVars, genVars,
                   wrVars, errVars>>

\* mutant of on_error: the second error transition also has
\* after="disconnect"
on_error_disconnects(error_code) ==
    /\ state \in error_source
    /\ event' = [name |-> "error", code |-> error_code]
    /\ Len(disconnects) < MaxDisconnects
    /\ log_error(error_code)
    /\ state' = IF is_fatal_error(error_code) THEN "finalize" ELSE state
    /\ disconnect(open_files)
    /\ raised' = "none"
    /\ UNCHANGED <<requests, current_writer, files, open_files, fetched,
                   saved, completed, initial_requests, expVars, genVars,
                   wrVars, errVars>>

\* the two error transitions, tried in the order they were added
on_error(error_code) ==
    /\ state \in error_source
    /\ event' = [name |-> "error", code |-> error_code]
    /\ IF is_fatal_error(error_code)
       THEN /\ Len(disconnects) < MaxDisconnects
            /\ log_error(error_code)
            /\ state' = "finalize"
            /\ disconnect(open_files)
       ELSE /\ log_error(error_code)
            /\ UNCHANGED <<state, disconnects>>
    /\ raised' = "none"
    /\ UNCHANGED <<requests, current_writer, files, open_files, fetched,
                   saved, completed, initial_requests, expVars, genVars,
                   wrVars, errVars>>

error == \E error_code \in ErrorCodes : on_error(error_code)

\* SnapshotApp.keyboardInterrupt
stop ==
    /\ state \in stop_source
    /\ Len(disconnects) < MaxDisconnects
    /\ event' = [name |-> "stop", code |-> 0]
    /\ state' = "finalize"
    /\ disconnect(open_files)
    /\ raised' = "none"
    /\ UNCHANGED <<requests, current_writer, files, open_files, fetched,
                   saved, completed, initial_requests, last_log, expVars,
                   genVars, wrVars, errVars>>

Next == nextValidId \/ historicalData \/ historicalDataEnd \/ error \/ stop

Spec == InitDrv /\ [][Next]_vars

\* ---- SpecLive: a session that completes every fetch ---------------------
\* the driver is built with at least one request
InitLive == InitDrv /\ requests # <<>>

\* an error callback whose code is_fatal_error rejects
nonfatal_error ==
    \E error_code \in ErrorCodes :
        ~is_fatal_error(error_code) /\ on_error(error_code)

\* no fatal error and no stop
NextLive == nextValidId \/ historicalData \/ historicalDataEnd \/ nonfatal_error

\* the session delivers nextValidId, and historicalDataEnd for every fetch
SpecLive ==
    /\ InitLive
    /\ [][NextLive]_vars
    /\ WF_vars(nextValidId)
    /\ WF_vars(Outstanding > 0 /\ historicalDataEnd)

\* ---- SpecWr: one SnapshotWriter, called directly ------------------------
WriterTickers == {"ESH4", "GCJ4"}

InitWr ==
    /\ \E ticker \in WriterTickers :
          current_writer = Some(SnapshotWriter(ticker))
    /\ files = <<>>
    /\ open_files = {}
    /\ saved = 0
    /\ raised = "none"
    /\ event = [name |-> "none", code |-> 0]
    /\ received = <<>>
    /\ finalize_calls = 0
    /\ state = "idle" /\ requests = <<>> /\ fetched = <<>>
    /\ disconnects = <<>> /\ completed = 0 /\ initial_requests = <<>>
    /\ last_log = None
    /\ ExpIdle /\ GenIdle /\ ErrIdle

\* writer.save_bar(bar); received keeps the bars whose call returned
WriterSaveBar ==
    /\ saved < MaxBars
    /\ \E bar \in Bars, io_ok \in BOOLEAN :
          LET w == save_bar(current_writer[1], files, open_files, bar, io_ok)
          IN  /\ current_writer' = Some(w.writer)
              /\ files' = w.files
              /\ open_files' = w.open_files
              /\ raised' = w.raised
              /\ received' = IF w.raised = "none" THEN Append(received, bar)
                             ELSE received
    /\ saved' = saved + 1
    /\ event' = [name |-> "save_bar", code |-> 0]
    /\ UNCHANGED <<finalize_calls, state, requests, fetched, disconnects,
                   completed, initial_requests, last_log, expVars, genVars,
                   errVars>>

\* writer.finalize(); event.code counts the calls made in succession
WriterFinalize ==
    /\ finalize_calls < MaxFinalize
    /\ LET w == finalize(current_writer[1], files, open_files)
       IN  /\ current_writer' = Some(w.writer)
           /\ files' = w.files
           /\ open_files' = w.open_files
    /\ raised' = "none"
    /\ finalize_calls' = finalize_calls + 1
    /\ event' = [name |-> "finalize",
                 code |-> IF event.name = "finalize" THEN event.code + 1
                          ELSE 1]
    /\ UNCHANGED <<received, saved, state, requests, fetched, disconnects,
                   completed, initial_requests, last_log, expVars, genVars,
                   errVars>>

NextWr == WriterSaveBar \/ WriterFinalize

SpecWr == InitWr /\ [][NextWr]_vars

\* ---- SpecErr: is_fatal_error on one code --------------------------------
\* codes around every boundary of the classification
ProbeCodes ==
    {-1, 0, 502, 1100} \cup (1990..2010) \cup (9990..10010) \cup (10160..10170)

\* err_strict: whether the caller needs real-time data; is_fatal_error has
\* no parameter or attribute that carries it
InitErr ==
    /\ err_pc = "call"
    /\ err_code \in ProbeCodes
    /\ err_strict \in BOOLEAN
    /\ err_fatal = FALSE
    /\ ExpIdle /\ GenIdle /\ DrvIdle /\ WrIdle

IsFatalError ==
    /\ err_pc = "call"
    /\ err_fatal' = is_fatal_error(err_code)
    /\ err_pc' = "returned"
    /\ UNCHANGED <<err_code, err_strict, expVars, genVars, drvVars, wrVars>>

NextErr == IsFatalError

SpecErr == InitErr /\ [][NextErr]_vars

\* ======================= claims on the calendar ==========================

\* the candidate list the schedule of a symbol asks for: every scheduled
\* month of the year, then the first scheduled month of the next year
ScheduledDates(b, base, year) ==
    LET months == get_expiration_months(b, base)[1]
    IN  [i \in 1..(Len(months) + 1) |->
            IF i <= Len(months)
            THEN get_expiration_date(b, year, months[i])[1]
            ELSE get_expiration_date(b, year + 1, months[1])[1]]

\* an iteration of the loop has completed for symbols(basket)[base_idx]
Yielded == gen_pc \in {"loop", "done"} /\ base_idx >= 1

\* C7: for every basket, symbol and reference date the candidate list is
\* every scheduled expiration of the reference year, in order, followed by
\* the first scheduled expiration of the next year; the selected expiration
\* is the earliest scheduled one not before the reference date, and a
\* candidate always exists.
C7_CandidatesCoverSchedule ==
    /\ gen_pc # "RuntimeError"
    /\ Yielded =>
         LET expected == ScheduledDates(basket, symbols(basket)[base_idx],
                                        today[1])
         IN  /\ expiration_dates = expected
             /\ expiration_date = Some(Head(unexpired(expected, today)))

\* C7 restricted to the equity-index basket, whose schedule has four months
C7_EquityCandidatesCoverSchedule ==
    basket = "FuturesBasket" => C7_CandidatesCoverSchedule

\* C8: generate_requests yields exactly one request per symbol, in symbol
\* order, and each end timestamp is min(roll_date, reference date): never
\* later than the reference date, never later than the roll date.
C8_OneRequestPerSymbol ==
    /\ gen_pc \in {"loop", "done"}
    /\ Len(yielded) = base_idx
    /\ gen_pc = "done" => Len(yielded) = Len(symbols(basket))
    /\ \A i \in 1..Len(yielded) :
         /\ yielded[i].contract.localSymbol \in
               {symbols(basket)[i] \o l \o d :
                    l \in {EXPIRATION_LABELS[m] : m \in 1..12},
                    d \in {DecimalDigit[k] : k \in 1..10}}
         /\ ~dt_lt(today, yielded[i].endtime)
    /\ Yielded =>
         LET end == yielded[base_idx].endtime
         IN  /\ ~dt_lt(roll_date[1], end)
             /\ end \in {roll_date[1], today}

\* all three metals requests are yielded; the first ends at its roll date
\* (earlier than the reference date) and the last at the reference date
C8_Witness_RollDateAndToday ==
    /\ gen_pc = "done"
    /\ basket = "MetalsBasket"
    /\ Len(yielded) = 3
    /\ dt_lt(yielded[1].endtime, today)
    /\ yielded[3].endtime = today

\* C9: the roll date is exactly roll_offset days before the expiration date
\* (8 equity-index, 7 metals); the local ticker is base symbol + month
\* letter of the expiration month + last digit of the expiration year;
\* reference date 2024-03-01 with the equity-index basket gives expiration
\* 2024-03-15, roll date 2024-03-07, letter H and digit 4.
C9_RollDateAndTicker ==
    Yielded =>
      LET exp == expiration_date[1]
          roll == roll_date[1]
          base == symbols(basket)[base_idx]
          ticker == yielded[base_idx].contract.localSymbol
      IN  /\ toordinal(exp[1], exp[2], exp[3])
               - toordinal(roll[1], roll[2], roll[3])
               = (IF basket = "FuturesBasket" THEN 8 ELSE 7)
          /\ roll[4] = exp[4]
          /\ ticker = base
               \o <<"F", "G", "H", "J", "K", "M", "N", "Q", "U", "V", "X",
                    "Z">>[exp[2]]
               \o DecimalDigit[exp[1] - 10 * (exp[1] \div 10) + 1]
          /\ (basket = "FuturesBasket" /\ today[1] = 2024 /\ today[2] = 3
              /\ today[3] = 1)
             => /\ exp = <<2024, 3, 15, 0>>
                /\ roll = <<2024, 3, 7, 0>>
                /\ ticker = base \o "H" \o "4"

C9_Witness_ScenarioA ==
    /\ Yielded
    /\ basket = "FuturesBasket"
    /\ today = <<2024, 3, 1, 34200>>
    /\ yielded[1].contract.localSymbol = "ESH4"

\* C10: FuturesBasket.get_expiration_date returns the 3rd Friday of the
\* month: a Friday of that month with exactly two earlier Fridays in it,
\* and the computation never fails for lack of a third Friday.
C10_ThirdFriday ==
    (exp_basket = "FuturesBasket" /\ exp_pc \notin {"call", "idle"}) =>
      /\ exp_pc = "returned"
      /\ exp_result # None
      /\ LET r == exp_result[1]
         IN  /\ r[1] = exp_year /\ r[2] = exp_month /\ r[4] = 0
             /\ r[3] \in 1..DaysInMonth(exp_year, exp_month)
             /\ weekday(exp_year, exp_month, r[3]) = 4
             /\ Cardinality({d \in 1..(r[3] - 1) :
                    weekday(exp_year, exp_month, d) = 4}) = 2

\* a 28-day month whose day 1 is a Saturday: the third Friday is day 21
C10_Witness_LatestThirdFriday ==
    /\ exp_pc = "returned"
    /\ exp_basket = "FuturesBasket"
    /\ DaysInMonth(exp_year, exp_month) = 28
    /\ weekday(exp_year, exp_month, 1) = 5
    /\ exp_result = Some(<<exp_year, exp_month, 21, 0>>)

\* ======================= claims on the driver ============================

\* C1: at most one fetch request is outstanding in every reachable state:
\* the driver calls reqHistoricalData for request k+1 only in the step that
\* processes the historicalDataEnd callback of request k.
C1_OneOutstanding ==
    [][/\ Outstanding' <= 1
       /\ Len(fetched') > Len(fetched) =>
            /\ Len(fetched') = Len(fetched) + 1
            /\ \/ Len(fetched) = 0 /\ event'.name = "nextValidId"
               \/ /\ event'.name = "historicalDataEnd"
                  /\ Outstanding = 1
                  /\ completed' = Len(fetched)]_vars

C1_Witness_SecondFetch ==
    /\ state = "req_historical"
    /\ Len(fetched) = 2
    /\ Outstanding = 1
    /\ event.name = "historicalDataEnd"

\* C2: the queue is consumed in FIFO order: the k-th fetch is for the k-th
\* request of the basket generator, nothing is fetched twice or skipped, and
\* fetches issued + remaining queue length is the initial number of requests.
C2_FifoOrder ==
    /\ Len(fetched) + Len(requests) = Len(initial_requests)
    /\ \A k \in 1..Len(fetched) :
         /\ fetched[k].contract = initial_requests[k].contract
         /\ fetched[k].endDateTime = strftime(initial_requests[k].endtime)
    /\ \A k \in 1..Len(requests) :
         requests[k] = initial_requests[Len(fetched) + k]

C2_Witness_AllFetched ==
    /\ Len(initial_requests) = 3
    /\ Len(fetched) = 3
    /\ fetched[3].contract.localSymbol = "RTYH4"
    /\ requests = <<>>

\* C3: no writer handle leaks past the terminal state: whenever the driver
\* is in finalize the current writer has no open partition file, and the
\* writer was finalized before every disconnect call.
C3_NoWriterLeakInFinalize ==
    state = "finalize" =>
      /\ open_files = {}
      /\ current_writer # None => current_writer[1].cur_file = None
      /\ \A i \in 1..Len(disconnects) : disconnects[i] = {}

\* C4: a fatal error in any state moves the driver to finalize and calls
\* disconnect in the same step; once in finalize no callback issues a fetch
\* or pops the request queue.
C4_FatalErrorAbandonsQueue ==
    [][/\ (event'.name = "error" /\ is_fatal_error(event'.code)) =>
            /\ state' = "finalize"
            /\ Len(disconnects') = Len(disconnects) + 1
            /\ fetched' = fetched
            /\ requests' = requests
       /\ state = "finalize" =>
            /\ state' = "finalize"
            /\ fetched' = fetched
            /\ requests' = requests]_vars

\* a late completion arrives after a fatal error that left requests queued
C4_Witness_LateCompletion ==
    /\ state = "finalize"
    /\ Len(fetched) = 1
    /\ Len(requests) = 2
    /\ Len(disconnects) = 1
    /\ event.name = "historicalDataEnd"
    /\ raised = "MachineError"

\* C5: with an empty request queue nextValidId takes the driver straight to
\* finalize: no fetch is issued, no exception is raised and the driver is
\* never in req_historical.
C5_EmptyQueueFinalizes ==
    initial_requests = <<>> =>
      /\ state # "req_historical"
      /\ raised # "IndexError"
      /\ fetched = <<>>
      /\ (event.name = "nextValidId" /\ raised = "none") => state = "finalize"

\* C6: disconnect is called exactly once in a run that reaches finalize and
\* never more than once, whatever arrives after finalize was entered.
C6_DisconnectExactlyOnce ==
    /\ Len(disconnects) <= 1
    /\ state = "finalize" <=> Len(disconnects) = 1

\* ======================= claims C11..C20 =================================

\* C11: MetalsBasket.get_expiration_date returns the 3rd-from-last business
\* day of the month, a business day being a day whose weekday index is in
\* 1..6 (0 = Monday): the returned day is a business day and exactly two
\* business days of that month are later than it.
C11_ThirdFromLastBusinessDay ==
    (exp_basket = "MetalsBasket" /\ exp_pc \notin {"call", "idle"}) =>
      /\ exp_pc = "returned"
      /\ exp_result # None
      /\ LET r == exp_result[1]
         IN  /\ r[1] = exp_year /\ r[2] = exp_month
             /\ r[3] \in 1..DaysInMonth(exp_year, exp_month)
             /\ weekday(exp_year, exp_month, r[3]) \in 1..6
             /\ Cardinality({d \in (r[3] + 1)..DaysInMonth(exp_year, exp_month) :
                    weekday(exp_year, exp_month, d) \in 1..6}) = 2

\* ---- the writer of SpecWr ------------------------------------------------
Wr == current_writer[1]

BarDates == {<<t[1], t[2], t[3]>> : t \in BarTimes}

\* {YYYY-MM-DD} of the two bar dates, written out
IsoDate(d) == IF d = <<2024, 3, 1>> THEN "2024-03-01" ELSE "2024-03-04"

\* the partition file of date d: {date}_{ticker}.csv in the base directory
PartitionName(ticker, d) == "snapshots/" \o IsoDate(d) \o "_" \o ticker \o ".csv"

\* the data rows a bar of date d can produce
RowsOfDate(d) ==
    {BarLine(BarData(t)) : t \in {u \in BarTimes : <<u[1], u[2], u[3]>> = d}}

\* the rows of the bars of date d in a sequence of bars, in order
RECURSIVE RowsReceived(_, _)
RowsReceived(bars, d) ==
    IF bars = <<>> THEN <<>>
    ELSE LET rest == RowsReceived(Tail(bars), d)
         IN  IF BarLine(Head(bars)) \in RowsOfDate(d)
             THEN <<BarLine(Head(bars))>> \o rest ELSE rest

IsPrefix(a, b) == Len(a) <= Len(b) /\ SubSeq(b, 1, Len(a)) = a

\* C12: every partition file a writer opens is named {date}_{ticker}, starts
\* with exactly one header row and every data row is a bar of the file's
\* date; at most one file is open (the previous one is closed before the
\* next is opened); a stream of 3 bars over two dates (2 then 1), with no
\* finalize in between, gives two files with 2 rows and 1 row.
C12_PartitionFiles ==
    /\ \A path \in DOMAIN files :
          \E d \in BarDates :
             /\ path = PartitionName(Wr.ticker, d)
             /\ Len(files[path]) >= 1
             /\ files[path][1] = HeaderLine
             /\ \A i \in 2..Len(files[path]) : files[path][i] \in RowsOfDate(d)
    /\ Cardinality(open_files) <= 1
    /\ received = <<BarData(<<2024, 3, 1, 34200>>),
                    BarData(<<2024, 3, 1, 34500>>),
                    BarData(<<2024, 3, 4, 34200>>)>>
       /\ saved = 3 /\ finalize_calls = 0
       => /\ DOMAIN files = {PartitionName(Wr.ticker, <<2024, 3, 1>>),
                             PartitionName(Wr.ticker, <<2024, 3, 4>>)}
          /\ Len(files[PartitionName(Wr.ticker, <<2024, 3, 1>>)]) = 3
          /\ Len(files[PartitionName(Wr.ticker, <<2024, 3, 4>>)]) = 2
          /\ open_files \subseteq {PartitionName(Wr.ticker, <<2024, 3, 4>>)}

C12_Witness_ScenarioB ==
    /\ received = <<BarData(<<2024, 3, 1, 34200>>),
                    BarData(<<2024, 3, 1, 34500>>),
                    BarData(<<2024, 3, 4, 34200>>)>>
    /\ saved = 3 /\ finalize_calls = 0
    /\ Cardinality(DOMAIN files) = 2
    /\ open_files = {"snapshots/2024-03-04_ESH4.csv"}

\* a step that is a call of finalize on the writer of SpecWr
FinalizeStep == finalize_calls' = finalize_calls + 1

\* what finalize does whatever the state of the writer: no error, no file
\* write, and afterwards no open file and no current date; a second call in
\* succession changes nothing
FinalizeEffect ==
    /\ raised' = "none"
    /\ files' = files
    /\ current_writer'[1].cur_file = None
    /\ current_writer'[1].cur_date = None
    /\ open_files' = {}
    /\ event.name = "finalize" =>
         current_writer' = current_writer /\ open_files' = open_files

\* C13 as stated: finalize is idempotent; calling it when no partition is
\* open is a no-op; calling it twice in succession is the same as once, with
\* no error and no file write; afterwards no open file and no current date.
C13_FinalizeIdempotent ==
    [][FinalizeStep =>
         /\ FinalizeEffect
         /\ open_files = {} =>
              current_writer' = current_writer /\ open_files' = open_files]_vars

\* C13 amended: as C13, but calling finalize when no partition is open is a
\* no-op only for a writer without a current date and without a file
\* reference; after a save_bar whose makedirs/open failed it clears the
\* current date and the reference to the closed file, and nothing else.
C13_FinalizeIdempotentAmended ==
    [][FinalizeStep =>
         /\ FinalizeEffect
         /\ open_files = {} =>
              current_writer' =
                 Some([Wr EXCEPT !.cur_date = None, !.cur_file = None])
         /\ (Wr.cur_file = None /\ Wr.cur_date = None) =>
              current_writer' = current_writer /\ open_files' = open_files]_vars

\* finalize was called twice in succession after bars were written
C13_Witness_FinalizedTwice ==
    /\ event = [name |-> "finalize", code |-> 2]
    /\ received # <<>>
    /\ files # <<>>
    /\ open_files = {}

\* C19: the writer is append-only: while save_bar is called with bars in any
\* date order no row already written is removed, overwritten or reordered,
\* and after the finalize that follows the rows of the file of each date are
\* exactly the bars of that date in the order they were received.  Stated
\* for the runs in which every save_bar call returned (saved = Len(received)).
C19_AppendOnly ==
    /\ [](finalize_calls = 1 /\ event.name = "finalize"
          /\ saved = Len(received) =>
           \A d \in BarDates :
              LET path == PartitionName(Wr.ticker, d)
              IN  IF path \in DOMAIN files
                  THEN Tail(files[path]) = RowsReceived(received, d)
                  ELSE RowsReceived(received, d) = <<>>)
    /\ [][finalize_calls' = 0 /\ saved' = Len(received') =>
            \A path \in DOMAIN files :
               /\ path \in DOMAIN files'
               /\ IsPrefix(files[path], files'[path])]_vars

InFlightTicker == fetched[Len(fetched)].contract.localSymbol

\* the partition files a writer of the ticker can open
PartitionsOf(ticker) == {PartitionName(ticker, d) : d \in BarDates}

\* the files a step created or changed
Touched(fs, fs2) ==
    {p \in DOMAIN fs2 : p \notin DOMAIN fs \/ fs2[p] # fs[p]}

\* C15: when writing a bar fails with an I/O error (the directory cannot be
\* created or the partition file cannot be opened) while the driver is in
\* req_historical, the driver ends in finalize with disconnect called.
C15_IoErrorIsFatal ==
    (event.name = "historicalData" /\ raised = "OSError") =>
      /\ state = "finalize"
      /\ Len(disconnects) >= 1

\* C16: no writer handle leaks across requests: a completion with a
\* non-empty queue closes the current writer's file in the step that creates
\* the next writer and issues the next fetch; at most one partition file is
\* open in every state, and it belongs to the request in flight; a bar
\* received in req_historical changes only a file named with the ticker of
\* the request in flight, and when the save returns the bar is the last row
\* of the open file.
C16_NoHandleLeakAcrossRequests ==
    /\ [](/\ Cardinality(open_files) <= 1
          /\ open_files # {} =>
               /\ fetched # <<>>
               /\ open_files \subseteq PartitionsOf(InFlightTicker))
    /\ [][/\ (event'.name = "historicalDataEnd"
                /\ Len(fetched') > Len(fetched)) =>
               /\ open_files' = {}
               /\ current_writer' =
                    Some(SnapshotWriter(
                           fetched'[Len(fetched')].contract.localSymbol))
          /\ (event'.name = "historicalData" /\ state = "req_historical") =>
               /\ Touched(files, files') # {} =>
                    /\ fetched # <<>>
                    /\ Touched(files, files') \subseteq
                         PartitionsOf(InFlightTicker)
               /\ raised' = "none" =>
                    \E p \in open_files' :
                       /\ p \in PartitionsOf(InFlightTicker)
                       /\ Len(files'[p]) >= 2
                       /\ files'[p][1] = HeaderLine
                       /\ files'[p][Len(files'[p])] \in
                            {BarLine(b) : b \in Bars}]_vars

\* a bar of the second request was saved after a bar of the first
C16_Witness_SecondWriter ==
    /\ state = "req_historical"
    /\ Len(fetched) = 2
    /\ event.name = "historicalData"
    /\ raised = "none"
    /\ Cardinality(open_files) = 1
    /\ open_files \subseteq PartitionsOf(InFlightTicker)
    /\ \E p \in DOMAIN files :
          p \in PartitionsOf(fetched[1].contract.localSymbol)

\* C17: a non-fatal error in any state is logged only: state, request
\* queue, current writer, files and open partition file are unchanged, no
\* fetch and no disconnect is made, and the request in flight stays
\* outstanding.
C17_NonFatalErrorLogsOnly ==
    [][(event'.name = "error"
          /\ \/ event'.code >= 2000 /\ event'.code < 10000
             \/ event'.code = 10167) =>
         /\ last_log' = Some(event'.code)
         /\ state' = state
         /\ requests' = requests
         /\ current_writer' = current_writer
         /\ files' = files
         /\ open_files' = open_files
         /\ fetched' = fetched
         /\ disconnects' = disconnects
         /\ Outstanding' = Outstanding]_vars

\* the delayed-data warning arrives while a partition file is open
C17_Witness_WarningWhileWriting ==
    /\ state = "req_historical"
    /\ event = [name |-> "error", code |-> 10167]
    /\ last_log = Some(10167)
    /\ open_files # {}
    /\ requests # <<>>
    /\ Outstanding = 1
    /\ disconnects = <<>>

\* the position of a state in the list of states
Rank(s) == CHOOSE i \in 1..Len(states) : states[i] = s

\* C18: the state only moves forward in the order initial < req_historical
\* < finalize: no step goes to an earlier state, and finalize is absorbing:
\* once entered no event changes the state, pops the queue, issues a fetch
\* or writes a bar.
C18_ForwardOnly ==
    [][/\ Rank(state') >= Rank(state)
       /\ state = "finalize" =>
            /\ state' = "finalize"
            /\ requests' = requests
            /\ fetched' = fetched
            /\ files' = files
            /\ open_files' = open_files
            /\ current_writer' = current_writer]_vars

\* a bar arrives after the driver was stopped with a file open
C18_Witness_LateBar ==
    /\ state = "finalize"
    /\ event.name = "historicalData"
    /\ raised = "MachineError"
    /\ open_files # {}
    /\ requests # <<>>

\* C20: from N >= 1 queued requests, with nextValidId delivered and
\* historicalDataEnd delivered for every fetch, and no fatal error or stop,
\* the driver eventually is in finalize for good with an empty queue,
\* exactly N fetches issued, the writer finalized and disconnect called;
\* nothing but historicalDataEnd takes the driver out of req_historical
\* (there is no timeout).
C20_Termination ==
    /\ <>[](/\ state = "finalize"
            /\ requests = <<>>
            /\ Len(fetched) = Len(initial_requests)
            /\ completed = Len(initial_requests)
            /\ open_files = {}
            /\ current_writer # None
            /\ current_writer[1].cur_file = None
            /\ Len(disconnects) = 1
            /\ disconnects[1] = {})
    /\ [][(state = "req_historical" /\ event'.name # "historicalDataEnd") =>
             state' = "req_historical"]_vars

\* all three requests of the basket were fetched, bars were saved, and the
\* last completion finalized the driver
C20_Witness_AllDone ==
    /\ state = "finalize"
    /\ event.name = "historicalDataEnd"
    /\ raised = "none"
    /\ Len(initial_requests) = 3
    /\ Len(fetched) = 3
    /\ completed = 3
    /\ saved >= 1
    /\ files # <<>>
    /\ Len(disconnects) = 1

====
